---- MODULE Spec2Model ----
(***************************************************************************)
(* Model of pebble/process/task.py: the lifecycle of a ProcessTask.        *)
(*                                                                         *)
(* Three kinds of concurrent agents act on a task:                         *)
(*   - task_manager (a daemon thread): spawns the worker, waits on the     *)
(*     queue, sets the outcome, terminates and joins the worker, runs the  *)
(*     callback;                                                           *)
(*   - task_worker (a daemon process): calls the function and puts its     *)
(*     outcome on the queue;                                               *)
(*   - the caller: cancel() and get() on the task handle.                  *)
(* Every statement at which another agent can be scheduled is one action.  *)
(***************************************************************************)
EXTENDS Integers, Sequences, FiniteSets, TLC

\* ------------------------------------------------------------------ bounds
NTasks == 2          \* task slots of the model
MaxCancels == 2      \* cancel() calls per task
MaxTimeout == 2      \* largest configured timeout

Tasks == 1..NTasks
Single == {1}        \* the tasks started in the single-task specification

\* ------------------------------------------------------------- data values
\* A Python object that travels as an outcome.  v is the payload (a return
\* value, an error message, a timeout bound) as a sequence, <<>> being None.
\* raises is the class of the error the pickler raises on an object that is
\* not picklable.
Obj(kind, v, truthy, picklable, traceback) ==
    [kind |-> kind, v |-> v, truthy |-> truthy, picklable |-> picklable,
     raises |-> "PicklingError", traceback |-> traceback]

\* Pickling an object that cannot be pickled raises PicklingError (a lambda)
\* or another class of error (TypeError for a lock or a generator).
PickleErrors == {"PicklingError", "TypeError"}

Unpicklable(o, e) == [o EXCEPT !.picklable = FALSE, !.raises = e]

None == Obj("None", <<>>, FALSE, TRUE, FALSE)

ExcKinds == {"Exception", "TaskCancelled", "TimeoutError", "PicklingError"}

IsException(o) == o.kind \in ExcKinds

\* TaskCancelled('Task Cancelled')
TaskCancelled == Obj("TaskCancelled", <<>>, TRUE, TRUE, FALSE)

\* TimeoutError('Task Timeout', timeout)
TimeoutError(timeout) == Obj("TimeoutError", timeout, TRUE, TRUE, FALSE)

\* PicklingError raised by queue.put, annotated by the worker
PicklingError == Obj("PicklingError", <<>>, TRUE, TRUE, TRUE)

\* Python's  a and b or c
PyAndOr(a, b, c) == IF a /\ b.truthy THEN b ELSE c

\* What the target function does when called.
\*   return : returns ret            raise  : raises exc (not OS/IO)
\*   oserror: raises IOError/OSError hang   : never returns
Values == { Obj("value", <<n>>, n # 0, TRUE, FALSE) : n \in {0, 42} }

ReturnValues ==
    { None } \cup Values \cup
    { Unpicklable(o, e) : o \in Values, e \in PickleErrors }

Exceptions ==
    { Obj("Exception", <<m>>, tr, TRUE, FALSE) : m \in {7}, tr \in BOOLEAN }

RaisedErrors ==
    Exceptions \cup
    { Unpicklable(o, e) : o \in Exceptions, e \in PickleErrors }

Behaviours ==
    { [do |-> "return", ret |-> r, exc |-> None] : r \in ReturnValues } \cup
    { [do |-> "raise", ret |-> None, exc |-> e] : e \in RaisedErrors } \cup
    { [do |-> d, ret |-> None, exc |-> None] : d \in {"oserror", "hang"} }

\* The wrappers built by the decorator, and the sources of tasks:
\* a call of a wrapper, or the explicit form task(target=...).
Wrappers == {"w1", "w2"}
Sources == Wrappers \cup {"task"}

Timeouts == (0 - 1)..MaxTimeout
Callbacks == {"none", "ok", "raises"}

\* -------------------------------------------------------------------- state
VARIABLES
    counter, \* counter[s]: next value of wrapper s's _counter, or of the
             \* module's _task_counter for s = "task"
    cfg,     \* cfg[t]: number, timeout, callback and function of the task
    task,    \* task[t]: the Task object: _ready, _results, _cancelled
    queue,   \* queue[t]: marshalled items in the task's SimpleQueue
    mgr,     \* mgr[t]: the task_manager thread: pc and local results
    wrk,     \* wrk[t]: the task_worker process: pc, locals, exit status
    clr,     \* clr[t]: the caller: pc of a cancel() in progress, call count
    gets,    \* gets[t]: what get() calls have yielded so far
    hist     \* hist[t]: observation counters (never read by the program)

vars == <<counter, cfg, task, queue, mgr, wrk, clr, gets, hist>>


\* ------------------------------------------------- channel (SimpleQueue)
\* Marshalling of an object for the pipe, and its inverse.  A marshalled
\* object is a tuple; the receiver rebuilds a picklable object from it.
Dumps(o) == <<o.kind, o.v, o.truthy, o.traceback>>

Loads(p) == Obj(p[1], p[2], p[3], TRUE, p[4])

\* queue.put(o) on a healthy pipe
QueuePut(q, o) == Append(q, Dumps(o))

\* ------------------------------------------------------------ Task object
\* Task.__init__: not ready, no results, not cancelled
NewTask == [ready |-> FALSE, results |-> None, cancelled |-> FALSE]

\* Task._set(results): store the outcome and release blocked callers
Task_set(tk, results) == [tk EXCEPT !.ready = TRUE, !.results = results]

\* Task.get() on a ready task: raise the outcome if it is an exception,
\* return it otherwise
Task_get(tk) == [ready |-> TRUE, raised |-> IsException(tk.results),
                 value |-> tk.results]

\* Task.get(timeout) whose own wait elapsed before the task was ready
GetStillRunning == [ready |-> FALSE, raised |-> TRUE, value |-> None]

\* -------------------------------------------------------------------- init
NoFunction == [do |-> "hang", ret |-> None, exc |-> None]

NoConfig == [born |-> FALSE, source |-> "task", number |-> 0, timeout |-> 0,
             callback |-> "none", function |-> NoFunction]

NoManager == [pc |-> "none", results |-> None]

NoWorker == [pc |-> "none", error |-> None, results |-> None,
             exiting |-> FALSE, status |-> <<>>]

NoHist == [sets |-> 0, callbacks |-> 0, cbRaised |-> 0, cbSaw |-> None,
           writes |-> 0, puts |-> 0, putFailed |-> FALSE,
           empty |-> FALSE, first |-> <<>>, written |-> {},
           cancelFirst |-> FALSE, cancelInTime |-> FALSE,
           terminated |-> FALSE, joined |-> FALSE, uncaught |-> FALSE]

Init ==
    /\ counter = [s \in Sources |-> 0]
    /\ cfg = [t \in Tasks |-> NoConfig]
    /\ task = [t \in Tasks |-> NewTask]
    /\ queue = [t \in Tasks |-> <<>>]
    /\ mgr = [t \in Tasks |-> NoManager]
    /\ wrk = [t \in Tasks |-> NoWorker]
    /\ clr = [t \in Tasks |-> [pc |-> "idle", cancels |-> 0]]
    /\ gets = [t \in Tasks |-> {}]
    /\ hist = [t \in Tasks |-> NoHist]

\* ------------------------------------------------------------ TaskFactory
\* TaskDecoratorWrapper.__call__ / task(target=...): build the queue and the
\* ProcessTask, start the manager thread, return the task.
\* source is the wrapper that is called, or "task" for task(target=...);
\* the task number is next(self._counter), or next(_task_counter) in the
\* explicit form.
NewProcessTask(t, source, timeout, callback, function) ==
    /\ ~cfg[t].born
    /\ cfg' = [cfg EXCEPT ![t] = [born |-> TRUE, source |-> source,
                                  number |-> counter[source],
                                  timeout |-> timeout,
                                  callback |-> callback,
                                  function |-> function]]
    /\ counter' = [counter EXCEPT ![source] = @ + 1]
    /\ mgr' = [mgr EXCEPT ![t].pc = "spawn"]
    /\ UNCHANGED <<task, queue, wrk, clr, gets, hist>>

\* Variant: every task uses one queue, built once instead of once per call.
Task_queue_shared(t) == 1

\* task._queue: queue = SimpleQueue() is built anew by the call that creates
\* the task, so task t holds queue t.
Task_queue(t) == t

\* ------------------------------------------------------------ task_worker
\* results = function(*args, **kwargs) with its except clauses.  sys.exit(1)
\* raises SystemExit, which is pending while the finally clause runs.
task_worker_call(t) ==
    /\ wrk[t].pc = "call"
    /\ cfg[t].function.do # "hang"
    /\ LET f == cfg[t].function IN
       wrk' = [wrk EXCEPT ![t] =
                 CASE f.do = "return" ->
                        [@ EXCEPT !.pc = "put", !.results = f.ret]
                   [] f.do = "oserror" ->
                        [@ EXCEPT !.pc = "put", !.exiting = TRUE]
                   [] f.do = "raise" ->
                        [@ EXCEPT !.pc = "put",
                                  !.error = [f.exc EXCEPT !.traceback = TRUE]]]
    /\ UNCHANGED <<counter, cfg, task, queue, mgr, clr, gets, hist>>

\* The object the finally clause hands to queue.put
WorkerPayload(w) == PyAndOr(w.error # None, w.error, w.results)

\* Exit status of the worker once the finally clause has completed
ExitStatus(w) == IF w.exiting THEN <<1>> ELSE <<0>>

\* finally: queue.put(error is not None and error or results), with its
\* except clauses.  fault: the pipe raises IOError/OSError/EOFError.  An
\* error of the pickler that is not a PicklingError is caught by no clause
\* and ends the worker with a non-zero status.
task_worker_put(t, fault) ==
    /\ wrk[t].pc = "put"
    /\ LET o == WorkerPayload(wrk[t]) IN
       IF ~o.picklable /\ o.raises = "PicklingError"
       THEN /\ wrk' = [wrk EXCEPT ![t].pc = "put_error",
                                  ![t].error = PicklingError]
            /\ UNCHANGED <<queue, hist>>
       ELSE IF ~o.picklable
       THEN /\ wrk' = [wrk EXCEPT ![t].pc = "exited", ![t].status = <<1>>]
            /\ hist' = [hist EXCEPT ![t].uncaught = TRUE]
            /\ UNCHANGED queue
       ELSE IF fault
       THEN /\ wrk' = [wrk EXCEPT ![t].pc = "exited", ![t].status = <<1>>]
            /\ hist' = [hist EXCEPT ![t].putFailed = TRUE]
            /\ UNCHANGED queue
       ELSE /\ queue' = [queue EXCEPT ![Task_queue(t)] = QueuePut(@, o)]
            /\ wrk' = [wrk EXCEPT ![t].pc = "exited",
                                  ![t].status = ExitStatus(wrk[t])]
            /\ hist' = [hist EXCEPT
                          ![t].writes = @ + 1, ![t].puts = @ + 1,
                          ![t].written = @ \cup {Dumps(o)},
                          ![t].first = IF hist[t].puts = 0
                                       THEN <<Dumps(o)>> ELSE @]
    /\ UNCHANGED <<counter, cfg, task, mgr, clr, gets>>

\* except PicklingError: queue.put(error).  A pipe fault here is uncaught
\* and ends the worker with a non-zero status.
task_worker_put_error(t, fault) ==
    /\ wrk[t].pc = "put_error"
    /\ IF fault
       THEN /\ wrk' = [wrk EXCEPT ![t].pc = "exited", ![t].status = <<1>>]
            /\ hist' = [hist EXCEPT ![t].putFailed = TRUE]
            /\ UNCHANGED queue
       ELSE /\ queue' = [queue EXCEPT ![Task_queue(t)] = QueuePut(@, wrk[t].error)]
            /\ wrk' = [wrk EXCEPT ![t].pc = "exited",
                                  ![t].status = ExitStatus(wrk[t])]
            /\ hist' = [hist EXCEPT
                          ![t].writes = @ + 1, ![t].puts = @ + 1,
                          ![t].written = @ \cup {Dumps(wrk[t].error)},
                          ![t].first = IF hist[t].puts = 0
                                       THEN <<Dumps(wrk[t].error)>> ELSE @]
    /\ UNCHANGED <<counter, cfg, task, mgr, clr, gets>>

\* ----------------------------------------------------------- task_manager
\* Variant: timeout = task.timeout > 0 or None, which keeps the comparison's
\* True (1) instead of the configured bound.
EffectiveTimeout_bool(timeout) ==
    IF timeout > 0 THEN <<1>> ELSE <<>>

\* Variant: timeout = task.timeout or None, which bounds the wait for every
\* non-zero timeout.
EffectiveTimeout_truthy(timeout) ==
    IF timeout # 0 THEN <<timeout>> ELSE <<>>

\* timeout = task.timeout > 0 and task.timeout or None   (<<>> is None)
EffectiveTimeout(timeout) ==
    IF timeout > 0 /\ timeout # 0 THEN <<timeout>> ELSE <<>>

\* process = task_worker(queue, function, task._args, task._kwargs)
task_manager_spawn(t) ==
    /\ mgr[t].pc = "spawn"
    /\ mgr' = [mgr EXCEPT ![t].pc = "get"]
    /\ wrk' = [wrk EXCEPT ![t].pc = "call"]
    /\ UNCHANGED <<counter, cfg, task, queue, clr, gets, hist>>

\* Variant: the manager receives the newest item of the queue.
task_manager_get_last(t) ==
    /\ mgr[t].pc = "get"
    /\ queue[Task_queue(t)] # <<>>
    /\ mgr' = [mgr EXCEPT ![t].pc = "set",
                          ![t].results = Loads(queue[Task_queue(t)][Len(queue[Task_queue(t)])])]
    /\ queue' = [queue EXCEPT ![Task_queue(t)] = SubSeq(@, 1, Len(@) - 1)]
    /\ UNCHANGED <<counter, cfg, task, wrk, clr, gets, hist>>

\* Variant: the manager drains the queue and keeps the item read last.
task_manager_get_drain(t) ==
    /\ mgr[t].pc = "get"
    /\ queue[Task_queue(t)] # <<>>
    /\ mgr' = [mgr EXCEPT ![t].pc = "set",
                          ![t].results = Loads(queue[Task_queue(t)][Len(queue[Task_queue(t)])])]
    /\ queue' = [queue EXCEPT ![Task_queue(t)] = <<>>]
    /\ UNCHANGED <<counter, cfg, task, wrk, clr, gets, hist>>

\* results = queue.get(timeout) returning the oldest item of the queue
task_manager_get(t) ==
    /\ mgr[t].pc = "get"
    /\ queue[Task_queue(t)] # <<>>
    /\ mgr' = [mgr EXCEPT ![t].pc = "set",
                          ![t].results = Loads(Head(queue[Task_queue(t)]))]
    /\ queue' = [queue EXCEPT ![Task_queue(t)] = Tail(@)]
    /\ UNCHANGED <<counter, cfg, task, wrk, clr, gets, hist>>

\* queue.get(timeout) raising anything but Empty while receiving an item
\* (the pipe fails, or the item cannot be rebuilt): only Empty is caught, so
\* the exception ends the manager thread.
task_manager_get_fails(t) ==
    /\ mgr[t].pc = "get"
    /\ queue[Task_queue(t)] # <<>>
    /\ mgr' = [mgr EXCEPT ![t].pc = "crashed"]
    /\ queue' = [queue EXCEPT ![Task_queue(t)] = Tail(@)]
    /\ UNCHANGED <<counter, cfg, task, wrk, clr, gets, hist>>

\* queue.get(timeout) raising Empty: the deadline elapsed on an empty queue
task_manager_empty(t) ==
    /\ mgr[t].pc = "get"
    /\ EffectiveTimeout(cfg[t].timeout) # <<>>
    /\ queue[Task_queue(t)] = <<>>
    /\ mgr' = [mgr EXCEPT ![t].pc = "set_timeout"]
    /\ hist' = [hist EXCEPT ![t].empty = TRUE]
    /\ UNCHANGED <<counter, cfg, task, queue, wrk, clr, gets>>

\* Variant: a received outcome that is not a cancellation clears the
\* cancellation flag.
task_manager_set_uncancel(t) ==
    /\ mgr[t].pc = "set"
    /\ task' = [task EXCEPT ![t] =
                  [Task_set(@, mgr[t].results) EXCEPT
                     !.cancelled = @ /\ mgr[t].results = TaskCancelled]]
    /\ mgr' = [mgr EXCEPT ![t].pc = "terminate"]
    /\ hist' = [hist EXCEPT ![t].sets = @ + 1]
    /\ UNCHANGED <<counter, cfg, queue, wrk, clr, gets>>

\* task._set(results)
task_manager_set(t) ==
    /\ mgr[t].pc = "set"
    /\ task' = [task EXCEPT ![t] = Task_set(@, mgr[t].results)]
    /\ mgr' = [mgr EXCEPT ![t].pc = "terminate"]
    /\ hist' = [hist EXCEPT ![t].sets = @ + 1]
    /\ UNCHANGED <<counter, cfg, queue, wrk, clr, gets>>

\* Variant: after a timeout the manager sets the outcome and waits again.
task_manager_set_timeout_retry(t) ==
    /\ mgr[t].pc = "set_timeout"
    /\ task' = [task EXCEPT ![t] =
                  Task_set(@, TimeoutError(EffectiveTimeout(cfg[t].timeout)))]
    /\ mgr' = [mgr EXCEPT ![t].pc = "get"]
    /\ hist' = [hist EXCEPT ![t].sets = @ + 1]
    /\ UNCHANGED <<counter, cfg, queue, wrk, clr, gets>>

\* except Empty: task._set(TimeoutError('Task Timeout', timeout))
task_manager_set_timeout(t) ==
    /\ mgr[t].pc = "set_timeout"
    /\ task' = [task EXCEPT ![t] =
                  Task_set(@, TimeoutError(EffectiveTimeout(cfg[t].timeout)))]
    /\ mgr' = [mgr EXCEPT ![t].pc = "terminate"]
    /\ hist' = [hist EXCEPT ![t].sets = @ + 1]
    /\ UNCHANGED <<counter, cfg, queue, wrk, clr, gets>>

\* process.terminate(): a worker that has not exited is killed
Terminate(w) == IF w.pc = "exited" THEN w ELSE [w EXCEPT !.pc = "killed"]

task_manager_terminate(t) ==
    /\ mgr[t].pc = "terminate"
    /\ wrk' = [wrk EXCEPT ![t] = Terminate(@)]
    /\ mgr' = [mgr EXCEPT ![t].pc = "join"]
    /\ hist' = [hist EXCEPT ![t].terminated = TRUE]
    /\ UNCHANGED <<counter, cfg, task, queue, clr, gets>>

\* Variant: process.join() is not awaited before the callback.
task_manager_join_skipped(t) ==
    /\ mgr[t].pc = "join"
    /\ mgr' = [mgr EXCEPT ![t].pc = "callback"]
    /\ UNCHANGED <<counter, cfg, task, queue, wrk, clr, gets, hist>>

\* process.join(): returns once the worker has ended
task_manager_join(t) ==
    /\ mgr[t].pc = "join"
    /\ wrk[t].pc \in {"exited", "killed"}
    /\ mgr' = [mgr EXCEPT ![t].pc = "callback"]
    /\ hist' = [hist EXCEPT ![t].joined = TRUE]
    /\ UNCHANGED <<counter, cfg, task, queue, wrk, clr, gets>>

\* Variant: the callback is called outside any try statement, so a callback
\* that raises ends the manager thread abnormally.
task_manager_callback_uncaught(t) ==
    /\ mgr[t].pc = "callback"
    /\ mgr' = [mgr EXCEPT ![t].pc =
                 IF cfg[t].callback = "raises" THEN "crashed" ELSE "done"]
    /\ hist' = IF cfg[t].callback = "none" THEN hist
               ELSE [hist EXCEPT
                       ![t].callbacks = @ + 1,
                       ![t].cbSaw = task[t].results,
                       ![t].cbRaised =
                          IF cfg[t].callback = "raises" THEN @ + 1 ELSE @]
    /\ UNCHANGED <<counter, cfg, task, queue, wrk, clr, gets>>

\* if task._callback is not None: try: task._callback(task)
\*                                except Exception: print_exc()
task_manager_callback(t) ==
    /\ mgr[t].pc = "callback"
    /\ mgr' = [mgr EXCEPT ![t].pc = "done"]
    /\ hist' = IF cfg[t].callback = "none" THEN hist
               ELSE [hist EXCEPT
                       ![t].callbacks = @ + 1,
                       ![t].cbSaw = task[t].results,
                       ![t].cbRaised =
                          IF cfg[t].callback = "raises" THEN @ + 1 ELSE @]
    /\ UNCHANGED <<counter, cfg, task, queue, wrk, clr, gets>>

\* ----------------------------------------------------------------- caller
\* Variant: _cancel also stores the cancellation as the task's outcome, as
\* a task without a manager would.
ProcessTask_cancel_flag_sets(t) ==
    /\ task' = [task EXCEPT ![t].cancelled = TRUE, ![t].ready = TRUE,
                            ![t].results = TaskCancelled]
    /\ clr' = [clr EXCEPT ![t].pc = "put", ![t].cancels = @ + 1]
    /\ UNCHANGED <<counter, cfg, queue, mgr, wrk, gets, hist>>

\* Variant: _cancel does not record the cancellation on the task.
ProcessTask_cancel_flag_missing(t) ==
    /\ clr' = [clr EXCEPT ![t].pc = "put", ![t].cancels = @ + 1]
    /\ UNCHANGED <<counter, cfg, task, queue, mgr, wrk, gets, hist>>

\* ProcessTask._cancel, first statement: self._cancelled = True
ProcessTask_cancel_flag(t) ==
    /\ task' = [task EXCEPT ![t].cancelled = TRUE]
    /\ clr' = [clr EXCEPT ![t].pc = "put", ![t].cancels = @ + 1]
    /\ UNCHANGED <<counter, cfg, queue, mgr, wrk, gets, hist>>

\* Variant: cancel() runs _cancel() whatever the state of the task.
Task_cancel_unguarded(t) ==
    /\ cfg[t].born
    /\ clr[t].pc = "idle"
    /\ clr[t].cancels < MaxCancels
    /\ ProcessTask_cancel_flag(t)

\* Task.cancel(): nothing on a task that is already terminal, _cancel()
\* otherwise
Task_cancel(t) ==
    /\ cfg[t].born
    /\ clr[t].pc = "idle"
    /\ clr[t].cancels < MaxCancels
    /\ IF task[t].ready
       THEN /\ clr' = [clr EXCEPT ![t].cancels = @ + 1]
            /\ UNCHANGED <<counter, cfg, task, queue, mgr, wrk, gets, hist>>
       ELSE ProcessTask_cancel_flag(t)

\* Variant: _cancel terminates the worker itself instead of signalling the
\* manager through the queue.
ProcessTask_cancel_put_kills(t) ==
    /\ clr[t].pc = "put"
    /\ wrk' = [wrk EXCEPT ![t] = Terminate(@)]
    /\ clr' = [clr EXCEPT ![t].pc = "idle"]
    /\ UNCHANGED <<counter, cfg, task, queue, mgr, gets, hist>>

\* ProcessTask._cancel, second statement:
\* self._queue.put(TaskCancelled('Task Cancelled'))
ProcessTask_cancel_put(t) ==
    /\ clr[t].pc = "put"
    /\ queue' = [queue EXCEPT ![Task_queue(t)] = QueuePut(@, TaskCancelled)]
    /\ clr' = [clr EXCEPT ![t].pc = "idle"]
    /\ hist' = [hist EXCEPT
                  ![t].puts = @ + 1,
                  ![t].written = @ \cup {Dumps(TaskCancelled)},
                  ![t].first = IF hist[t].puts = 0
                               THEN <<Dumps(TaskCancelled)>> ELSE @,
                  ![t].cancelFirst =
                     @ \/ (~task[t].ready /\ hist[t].puts = 0),
                  ![t].cancelInTime =
                     @ \/ (~task[t].ready /\ hist[t].puts = 0
                            /\ ~hist[t].empty)]
    /\ UNCHANGED <<counter, cfg, task, mgr, wrk, gets>>

\* Task.get(): the outcome of a ready task, or the caller's own wait elapsing
Task_get_call(t) ==
    /\ cfg[t].born
    /\ clr[t].pc = "idle"
    /\ gets' = [gets EXCEPT ![t] =
                  @ \cup {IF task[t].ready THEN Task_get(task[t])
                          ELSE GetStillRunning}]
    /\ UNCHANGED <<counter, cfg, task, queue, mgr, wrk, clr, hist>>

\* ----------------------------------------------------------- specification
\* The steps of the manager thread of task t that follow the code's own
\* control flow.
ManagerStep(t) ==
    \/ task_manager_spawn(t)
    \/ task_manager_get(t)
    \/ task_manager_empty(t)
    \/ task_manager_set(t)
    \/ task_manager_set_timeout(t)
    \/ task_manager_terminate(t)
    \/ task_manager_join(t)
    \/ task_manager_callback(t)

\* The steps of the worker process of task t on a healthy pipe.
WorkerStep(t) ==
    \/ task_worker_call(t)
    \/ task_worker_put(t, FALSE)
    \/ task_worker_put_error(t, FALSE)

Step(t) ==
    \/ \E timeout \in Timeouts, callback \in Callbacks, f \in Behaviours :
          NewProcessTask(t, "w1", timeout, callback, f)
    \/ task_manager_spawn(t)
    \/ task_worker_call(t)
    \/ \E fault \in BOOLEAN : task_worker_put(t, fault)
    \/ \E fault \in BOOLEAN : task_worker_put_error(t, fault)
    \/ task_manager_get(t)
    \/ task_manager_get_fails(t)
    \/ task_manager_empty(t)
    \/ task_manager_set(t)
    \/ task_manager_set_timeout(t)
    \/ task_manager_terminate(t)
    \/ task_manager_join(t)
    \/ task_manager_callback(t)
    \/ Task_cancel(t)
    \/ ProcessTask_cancel_put(t)
    \/ Task_get_call(t)

\* One task, every configuration and every behaviour of its function.
Next == \E t \in Single : Step(t)

Spec == Init /\ [][Next]_vars

\* The same, with the scheduling the platform gives: a manager thread and a
\* worker process that can take a step eventually take one.  Nothing obliges
\* the caller to call cancel() or get(), a pipe to fail, or a read to fail.
FairSpec ==
    /\ Spec
    /\ \A t \in Single : WF_vars(ManagerStep(t)) /\ WF_vars(WorkerStep(t))

\* Several tasks side by side, each created by a call of the same wrapper:
\* tasks whose function returns 42, with and without a timeout, and tasks
\* whose function does not return, which time out or which the caller
\* cancels (once).
Returns42 ==
    [do |-> "return", ret |-> Obj("value", <<42>>, TRUE, TRUE, FALSE),
     exc |-> None]

MultiConfigs ==
    { [timeout |-> tm, function |-> f] :
        tm \in {0, 1}, f \in {Returns42, NoFunction} }

MultiStep(t) ==
    \/ \E c \in MultiConfigs :
          NewProcessTask(t, "w1", c.timeout, "none", c.function)
    \/ task_manager_spawn(t)
    \/ task_worker_call(t)
    \/ task_worker_put(t, FALSE)
    \/ task_manager_get(t)
    \/ task_manager_empty(t)
    \/ task_manager_set(t)
    \/ task_manager_set_timeout(t)
    \/ task_manager_terminate(t)
    \/ task_manager_join(t)
    \/ task_manager_callback(t)
    \/ /\ cfg[t].function.do = "hang" /\ cfg[t].timeout = 0
       /\ clr[t].cancels = 0
       /\ Task_cancel(t)
    \/ ProcessTask_cancel_put(t)

MultiNext == \E t \in Tasks : MultiStep(t)

MultiSpec == Init /\ [][MultiNext]_vars

\* Several tasks created from any source (two wrappers and the explicit
\* form), each running a function that returns 42, to completion.
IdStep(t) ==
    \/ \E source \in Sources :
          NewProcessTask(t, source, 0, "none", Returns42)
    \/ task_manager_spawn(t)
    \/ task_worker_call(t)
    \/ task_worker_put(t, FALSE)
    \/ task_manager_get(t)
    \/ task_manager_set(t)
    \/ task_manager_terminate(t)
    \/ task_manager_join(t)
    \/ task_manager_callback(t)

IdNext == \E t \in Tasks : IdStep(t)

IdSpec == Init /\ [][IdNext]_vars

\* ------------------------------------------------------------------ claims
\* Two objects are the same object as far as a receiver can tell.
SameObject(a, b) == Dumps(a) = Dumps(b)

AfterSet == {"terminate", "join", "callback", "done"}

\* C1: a task's outcome is set at most once: the manager has called _set
\* exactly once when it is past its try statement, never more than once
\* before, and a set outcome is never overwritten or cleared, whatever the
\* worker and cancel() do.
C1_OutcomeSetOnce ==
    [][\A t \in Tasks :
         /\ hist'[t].sets <= 1
         /\ mgr'[t].pc \in AfterSet => hist'[t].sets = 1
         /\ task[t].ready =>
              task'[t].ready /\ task'[t].results = task[t].results]_vars

\* C1 witness: the outcome was set, the manager has ended, a cancel() ran
\* and a later item is still in the queue.
C1_Witness ==
    \E t \in Tasks :
        /\ mgr[t].pc = "done" /\ hist[t].sets = 1
        /\ task[t].cancelled /\ queue[t] # <<>> /\ hist[t].writes = 1

\* C2: once the task is terminal every get() yields the task's one outcome
\* (returned, or raised when it is an exception), so all get() results are
\* identical, and a get() changes nothing of the task, queue, manager or
\* worker.
C2_GetIdempotent ==
    [][\A t \in Tasks :
         /\ \A g \in gets'[t] : g.ready => g = Task_get(task'[t])
         /\ gets'[t] # gets[t] =>
              /\ task'[t] = task[t] /\ queue'[t] = queue[t]
              /\ mgr'[t] = mgr[t] /\ wrk'[t] = wrk[t]]_vars

\* C2 witness: a get() on a terminal task, after another get() that found it
\* still running, with a cancel() and a late item in the queue.
C2_Witness ==
    \E t \in Tasks :
        /\ task[t].ready /\ Task_get(task[t]) \in gets[t]
        /\ GetStillRunning \in gets[t]
        /\ clr[t].cancels > 0 /\ queue[t] # <<>>

\* C3: when the manager's wait ends with the deadline elapsed on an empty
\* queue, the configured timeout t is > 0, the outcome the manager sets is
\* TimeoutError carrying t, and once the manager is past terminate() the
\* worker has ended, so the outcome stays the TimeoutError.
C3_TimeoutOutcome ==
    \A t \in Tasks :
        hist[t].empty =>
            /\ cfg[t].timeout > 0
            /\ mgr[t].pc \in AfterSet => task[t].ready
            /\ task[t].ready =>
                 task[t].results = TimeoutError(<<cfg[t].timeout>>)
            /\ mgr[t].pc \in {"join", "callback", "done"} =>
                 wrk[t].pc \in {"exited", "killed"}

\* C3 witness: a task with timeout 2 timed out, its worker was killed while
\* still running, and the manager has ended.
C3_Witness ==
    \E t \in Tasks :
        /\ hist[t].empty /\ mgr[t].pc = "done" /\ wrk[t].pc = "killed"
        /\ cfg[t].timeout = MaxTimeout /\ cfg[t].function.do = "return"
        /\ task[t].results = TimeoutError(<<MaxTimeout>>)

\* C4 as stated: with a timeout not greater than 0 the task never finalizes
\* with TimeoutError, and if the function returns v and cancel() was never
\* called the task finalizes with v.
C4_Original ==
    \A t \in Tasks :
        (cfg[t].born /\ cfg[t].timeout <= 0 /\ task[t].ready) =>
            /\ task[t].results.kind # "TimeoutError"
            /\ (cfg[t].function.do = "return" /\ clr[t].cancels = 0) =>
                 SameObject(task[t].results, cfg[t].function.ret)

\* C4 amended: ... and if the function returns a value v that can be
\* marshalled onto the queue and cancel() was never called, the task
\* finalizes with v.
C4_UnboundedWait ==
    \A t \in Tasks :
        (cfg[t].born /\ cfg[t].timeout <= 0 /\ task[t].ready) =>
            /\ task[t].results.kind # "TimeoutError"
            /\ (/\ cfg[t].function.do = "return"
                /\ cfg[t].function.ret.picklable
                /\ clr[t].cancels = 0) =>
                 SameObject(task[t].results, cfg[t].function.ret)

\* C4 witness: a task with timeout 0, never cancelled, finalized with the 42
\* its function returned.
C4_Witness ==
    \E t \in Tasks :
        /\ cfg[t].born /\ cfg[t].timeout = 0 /\ clr[t].cancels = 0
        /\ cfg[t].function.do = "return" /\ task[t].ready
        /\ task[t].results.kind = "value" /\ task[t].results.v = <<42>>

\* C5 as stated: if a cancel() completed while the task was not terminal and
\* nothing had been written to the queue, the task finalizes with
\* TaskCancelled.
C5_Original ==
    \A t \in Tasks :
        (hist[t].cancelFirst /\ task[t].ready) =>
            task[t].results = TaskCancelled

\* C5 amended: if a cancel() completed while the task was not terminal,
\* nothing had been written to the queue and the manager's wait had not
\* already ended with the deadline elapsed, the only outcome the task
\* finalizes with is TaskCancelled, also when the worker writes later.
C5_CancelFirst ==
    \A t \in Tasks :
        (hist[t].cancelInTime /\ task[t].ready) =>
            task[t].results = TaskCancelled

\* C5 witness: a cancel() came first, the worker wrote its result after it,
\* and the task finalized.
C5_Witness ==
    \E t \in Tasks :
        /\ hist[t].cancelInTime /\ task[t].ready /\ hist[t].writes = 1
        /\ task[t].results = TaskCancelled

\* C6: a cancel() call on a terminal task changes neither the outcome, nor
\* the cancellation flag, nor the queue.
C6_CancelAfterTerminal ==
    [][\A t \in Tasks :
         (task[t].ready /\ clr'[t].cancels = clr[t].cancels + 1) =>
            task'[t] = task[t] /\ queue'[t] = queue[t]]_vars

\* C6 witness: cancel() was called on a terminal task: calls were made, none
\* is in progress, and the flag is still false.
C6_Witness ==
    \E t \in Tasks :
        /\ task[t].ready /\ clr[t].cancels > 0 /\ clr[t].pc = "idle"
        /\ ~task[t].cancelled

\* C7: a registered callback is invoked at most once, and exactly once when
\* the manager has ended after setting the outcome, whatever the outcome; a
\* callback that raises does not end the manager abnormally, and the outcome
\* after the callback is the one the callback saw.
C7_CallbackOnce ==
    \A t \in Tasks :
        /\ hist[t].callbacks <= 1
        /\ (mgr[t].pc = "done" /\ cfg[t].callback # "none") =>
              hist[t].callbacks = 1
        /\ hist[t].callbacks = 1 =>
              /\ mgr[t].pc = "done"
              /\ task[t].ready /\ task[t].results = hist[t].cbSaw

\* C7 witness: the callback raised on a cancelled task and the manager ended.
C7_Witness ==
    \E t \in Tasks :
        /\ hist[t].cbRaised = 1 /\ mgr[t].pc = "done"
        /\ task[t].results = TaskCancelled

\* C8: a worker that has ended without a failed put has written exactly one
\* item if the function returned or raised a non-OS/IO exception, and no item
\* (exiting with a non-zero status) if it raised an OS/IO error.
C8_Original ==
    \A t \in Tasks :
        (wrk[t].pc = "exited" /\ ~hist[t].putFailed /\ ~hist[t].uncaught) =>
            /\ cfg[t].function.do \in {"return", "raise"} =>
                 hist[t].writes = 1
            /\ cfg[t].function.do = "oserror" =>
                 hist[t].writes = 0 /\ wrk[t].status # <<0>>

\* C9: a task with timeout > 0 whose function raises an OS/IO error and that
\* is never cancelled finalizes with TimeoutError and nothing else.
C9_Original ==
    \A t \in Tasks :
        (/\ cfg[t].timeout > 0 /\ cfg[t].function.do = "oserror"
         /\ clr[t].cancels = 0 /\ task[t].ready) =>
            task[t].results.kind = "TimeoutError"

\* C10: a manager that has ended after spawning its worker has called
\* terminate() and then join() on it.
C10_Original ==
    \A t \in Tasks :
        /\ hist[t].joined => hist[t].terminated
        /\ mgr[t].pc \in {"done", "crashed"} =>
              hist[t].terminated /\ hist[t].joined

\* C14: the cancellation flag never reverts: once true it is true in every
\* later state, through finalization, teardown, the callback and further
\* cancel() and get() calls.
C14_FlagNeverReverts ==
    [][\A t \in Tasks : task[t].cancelled => task'[t].cancelled]_vars

\* C14 witness: a flagged task whose manager set a genuine result, tore the
\* worker down and ran the callback, with a second cancel() and a get() after.
C14_Witness ==
    \E t \in Tasks :
        /\ task[t].cancelled /\ mgr[t].pc = "done" /\ hist[t].callbacks = 1
        /\ task[t].results.kind = "value"
        /\ clr[t].cancels > 1 /\ Task_get(task[t]) \in gets[t]

\* Items the manager has taken out of the queue so far.
Consumed(t) == hist[t].puts - Len(queue[t])

\* C15: the manager takes at most one item out of the queue; an outcome that
\* came from the queue is the first item ever written to it, whoever wrote
\* it, and every later item stays in the queue.
C15_FirstWriteWins ==
    \A t \in Tasks :
        /\ Consumed(t) \in {0, 1}
        /\ (task[t].ready /\ ~hist[t].empty) =>
              /\ Consumed(t) = 1
              /\ <<Dumps(task[t].results)>> = hist[t].first

\* C15 witness: the worker's result was written first and became the outcome
\* while a cancellation written later is still in the queue.
C15_Witness ==
    \E t \in Tasks :
        /\ task[t].ready /\ task[t].results.kind = "value"
        /\ hist[t].puts > 1 /\ Consumed(t) = 1
        /\ queue[t][1] = Dumps(TaskCancelled)

\* C16: at every invocation of the callback the outcome is set, terminate()
\* has been issued, join() has completed and the worker has ended.
C16_CallbackAfterTeardown ==
    [][\A t \in Tasks :
         hist'[t].callbacks > hist[t].callbacks =>
            /\ task[t].ready
            /\ hist[t].terminated /\ hist[t].joined
            /\ wrk[t].pc \in {"exited", "killed"}]_vars

\* C16 witness: the callback has run on a task whose worker was killed.
C16_Witness ==
    \E t \in Tasks :
        /\ hist[t].callbacks = 1 /\ wrk[t].pc = "killed"
        /\ hist[t].joined /\ task[t].ready

\* C17: a worker is terminated only by a step of its manager's terminate()
\* call, which comes after the outcome is set: cancel() and get() never end
\* it, and a terminated worker belongs to a terminal task.
C17_OnlyManagerTerminates ==
    [][\A t \in Tasks :
         /\ (wrk'[t].pc = "killed" /\ wrk[t].pc # "killed") =>
               /\ mgr[t].pc = "terminate" /\ mgr'[t].pc = "join"
               /\ task[t].ready
         /\ (wrk'[t].pc = "killed" \/ hist'[t].terminated) =>
               task'[t].ready]_vars

\* C17 witness: cancel() and get() were called while the worker was running,
\* and the worker was later killed by the manager.
C17_Witness ==
    \E t \in Tasks :
        /\ wrk[t].pc = "killed" /\ hist[t].terminated /\ task[t].ready
        /\ clr[t].cancels > 0 /\ GetStillRunning \in gets[t]

C12_Original ==
    \A t \in Tasks :
        (/\ cfg[t].function.do = "raise" /\ cfg[t].function.exc.picklable
         /\ clr[t].cancels = 0 /\ ~hist[t].empty /\ task[t].ready) =>
            SameObject(task[t].results,
                       [cfg[t].function.exc EXCEPT !.traceback = TRUE])

\* The outcome the worker captured cannot be marshalled.
CapturedUnpicklable(t) ==
    \/ cfg[t].function.do = "return" /\ ~cfg[t].function.ret.picklable
    \/ /\ cfg[t].function.do = "raise" /\ cfg[t].function.exc.truthy
       /\ ~cfg[t].function.exc.picklable

\* C19: when the captured outcome cannot be marshalled, the failed write
\* leaves the queue untouched, a worker that ends without a pipe fault has
\* written the marshalling error with its trace as its single item, and a
\* task neither cancelled nor timed out finalizes with that error.
C19_Original ==
    \A t \in Tasks :
        CapturedUnpicklable(t) =>
            /\ wrk[t].pc = "put_error" => hist[t].writes = 0
            /\ (wrk[t].pc = "exited" /\ ~hist[t].putFailed) =>
                  hist[t].writes = 1
            /\ (clr[t].cancels = 0 /\ ~hist[t].empty /\ task[t].ready) =>
                  task[t].results = PicklingError

\* What belongs to task t: its configuration, its handle, its queue, its
\* manager, its worker and its caller's calls.
Own(t) == <<cfg[t], task[t], queue[t], mgr[t], wrk[t], clr[t], gets[t]>>

\* C11: with several tasks running, a task's outcome is an item written to
\* its own queue by its own worker or its own cancel(), or its own
\* TimeoutError; a step that changes anything of one task changes nothing of
\* any other task; and a worker is killed only by its own manager's
\* terminate().
C11_Independent ==
    [][\A t \in Tasks :
         /\ task'[t].ready =>
               \/ Dumps(task'[t].results) \in hist'[t].written
               \/ /\ hist'[t].empty
                  /\ task'[t].results = TimeoutError(<<cfg'[t].timeout>>)
         /\ \A u \in Tasks \ {t} : Own(t)' # Own(t) => Own(u)' = Own(u)
         /\ (wrk'[t].pc = "killed" /\ wrk[t].pc # "killed") =>
               mgr[t].pc = "terminate" /\ mgr'[t].pc = "join"]_vars

\* C11 witness: one task timed out and had its worker killed, another task
\* finalized with the 42 its function returned, and both managers ended.
C11_Witness ==
    \E t, u \in Tasks :
        /\ t # u
        /\ task[t].results = TimeoutError(<<1>>) /\ wrk[t].pc = "killed"
        /\ mgr[t].pc = "done" /\ mgr[u].pc = "done"
        /\ task[u].ready /\ task[u].results.v = <<42>>

\* C13: a task that is created receives a number larger than the number of
\* every task created before it, whatever wrapper or form created them; so
\* any two tasks have different numbers.
C13_Original ==
    [][\A t, u \in Tasks :
         (cfg'[t].born /\ ~cfg[t].born /\ cfg[u].born) =>
            cfg'[t].number > cfg[u].number]_vars

\* C18: every started task eventually has an outcome, set exactly once.
C18_Original ==
    \A t \in Tasks : cfg[t].born ~> (task[t].ready /\ hist[t].sets = 1)

====
